---- MODULE Spec2Model ----
(***************************************************************************)
(* A model of the support library of youtube-upload                        *)
(* (src/youtube_upload/lib.py) and of the exit-code table of main.py.      *)
(*                                                                         *)
(* Python strings are TLA+ strings (sequences of characters); the          *)
(* character at position i of s is SubSeq(s, i, i).  Python's None is the  *)
(* empty set and a present optional value n is {n}.  Exception classes are *)
(* named by strings and Base gives the class each one derives from.        *)
(*                                                                         *)
(* The module holds one specification per library function:                *)
(*   SpecRetry   retriable_exceptions                                      *)
(*   SpecCli     extract_vid_from_cli                                      *)
(*   SpecValid   check_valid_id                                            *)
(*   SpecFile    extract_vid_from_file, filter_vid                         *)
(*   SpecCatch   catch_exceptions with EXIT_CODES                          *)
(*   SpecSigint  default_sigint                                            *)
(***************************************************************************)
EXTENDS Integers, Sequences, FiniteSets, TLC

VARIABLES
    \* retriable_exceptions(fun, retriable_exceptions, max_retries)
    retriable_exceptions,   \* the set of retriable exception classes
    max_retries,            \* {} for None, {n} for the integer n
    retry,                  \* the local counter `retry`
    outcomes,               \* history: outcome of each call of fun, "ok" or a class
    sleeps,                 \* history: argument of each time.sleep call
    log,                    \* lines written by debug()
    rpc,                    \* "call" | "returned" | "raised"
    rresult,                \* what the function returned or raised
    \* extract_vid_from_cli(vid, delimiters, extra_delim)
    cli_tokens,             \* the tokens the input string was joined from
    cli_vid,                \* the parameter `vid`
    extra_delim,            \* the parameter `extra_delim`
    ids,                    \* the list `ids`
    cpc,                    \* "start" | "done"
    \* check_valid_id(vid)
    vid,                    \* the parameter `vid`
    valid,                  \* the value returned
    vpc,                    \* "start" | "done"
    \* extract_vid_from_file(f)
    f_src,                  \* how each line of the file was written
    f,                      \* the file: whether open() succeeds, and its lines
    stderr,                 \* lines printed to sys.stderr
    fresult,                \* what the function returned or raised
    fpc,                    \* "start" | "returned" | "raised"
    \* catch_exceptions(exit_codes, fun)
    exit_codes,             \* the dictionary: exception class -> exit code
    fun_raises,             \* "nothing", or the class of the exception fun raises
    kdebug,                 \* lines written by debug()
    kresult,                \* what the function returned or raised
    kpc,                    \* "start" | "returned" | "raised"
    \* default_sigint()
    handler,                \* the handler installed for SIGINT
    original_sigint_handler,\* the saved handler of each open scope, innermost last
    first_handler,          \* history: the handler before the first scope
    entry_handler,          \* history: the handler at the entry of each open scope
    last_exit,              \* history: the last scope left
    entered,                \* number of scopes entered so far
    propagating             \* an error raised in a body is propagating

retryVars == <<retriable_exceptions, max_retries, retry, outcomes, sleeps, log,
               rpc, rresult>>

cliVars == <<cli_tokens, cli_vid, extra_delim, ids, cpc>>

validVars == <<vid, valid, vpc>>

fileVars == <<f_src, f, stderr, fresult, fpc>>

catchVars == <<exit_codes, fun_raises, kdebug, kresult, kpc>>

sigintVars == <<handler, original_sigint_handler, first_handler, entry_handler,
                last_exit, entered, propagating>>

vars == <<retryVars, cliVars, validVars, fileVars, catchVars, sigintVars>>

\* The state of the functions other than the one named.
othersRetry == <<cliVars, validVars, fileVars, catchVars, sigintVars>>

othersCli == <<retryVars, validVars, fileVars, catchVars, sigintVars>>

othersValid == <<retryVars, cliVars, fileVars, catchVars, sigintVars>>

othersFile == <<retryVars, cliVars, validVars, catchVars, sigintVars>>

othersCatch == <<retryVars, cliVars, validVars, fileVars, sigintVars>>

othersSigint == <<retryVars, cliVars, validVars, fileVars, catchVars>>

-----------------------------------------------------------------------------
(* Exception classes                                                       *)

\* The classes the model draws raised exceptions from.
Classes ==
    {"Exception", "IOError", "FileNotFoundError", "ValueError", "HttpError",
     "OptionsError", "InvalidCategory", "RequestError", "AuthenticationError",
     "FlowExchangeError", "NotImplementedError", "NotImplementedSubclass",
     "KeyError"}

\* The direct base class of each class ("Exception" is the root).
Base(c) ==
    CASE c = "FileNotFoundError"      -> "IOError"
      [] c = "NotImplementedSubclass" -> "NotImplementedError"
      [] OTHER                        -> "Exception"

RECURSIVE IsSubclass(_, _)
\* issubclass(c, d): c is d or derives from it.
IsSubclass(c, d) ==
    IF c = d THEN TRUE
    ELSE IF c = "Exception" THEN FALSE
    ELSE IsSubclass(Base(c), d)

\* `except tuple(classes)`: the clause catches an instance of class c.
ExceptMatches(c, classes) == \E d \in classes : IsSubclass(c, d)

-----------------------------------------------------------------------------
(* retriable_exceptions                                                    *)

MaxRetries == 3     \* max_retries is drawn from None, 0 .. MaxRetries
MaxCalls == 4       \* fun is invoked at most MaxCalls times in a run

None == {}

RetriableSets ==
    {{}, {"IOError"}, {"IOError", "HttpError"}, {"FileNotFoundError"}}

RaisedByFun == {"IOError", "FileNotFoundError", "HttpError", "ValueError"}

RECURSIVE Pow2(_)
Pow2(n) == IF n = 0 THEN 1 ELSE 2 * Pow2(n - 1)

\* `type(exc) not in retriable_exceptions` is false: the exact class is listed.
TypeInRetriableMutant(c, classes) == ExceptMatches(c, classes)
TypeInRetriable(c, classes) == c \in classes

\* `max_retries is not None and retry > max_retries`
RetryLimitReachedMutant(r, mr) == mr # None /\ \E n \in mr : r >= n
RetryLimitReached(r, mr) == mr # None /\ \E n \in mr : r > n

\* random.uniform(0, 2**retry), sampled at both ends and in the middle.
WaitSecondsMutant(r) == {0, Pow2(r), Pow2(r + 1)}
WaitSeconds(r) == {0, Pow2(r) \div 2, Pow2(r)}

\* `max_retries or "-"`
TotalRetries(mr) == IF mr = None \/ mr = {0} THEN "-" ELSE ToString(CHOOSE n \in mr : TRUE)

\* debug("[Retryable errors] Retry limit reached")
DebugLimitMutant(lines) == lines
DebugLimit(lines) == Append(lines, [line |-> "Retry limit reached",
                                    current_retry |-> 0, total_retries |-> "-",
                                    error_type |-> "-", wait_time |-> 0])

\* debug(message) of the retry branch
DebugRetry(lines, r, mr, c, seconds) ==
    Append(lines, [line |-> "Retryable error", current_retry |-> r,
                   total_retries |-> TotalRetries(mr), error_type |-> c,
                   wait_time |-> seconds])

Returned(n) == [type |-> "return", call |-> n, kind |-> "-"]
Raised(n, c) == [type |-> "raise", call |-> n, kind |-> c]

RetryStart ==
    /\ retriable_exceptions \in RetriableSets
    /\ max_retries \in {None} \cup {{n} : n \in 0..MaxRetries}
    /\ retry = 0
    /\ outcomes = <<>>
    /\ sleeps = <<>>
    /\ log = <<>>
    /\ rpc = "call"
    /\ rresult = [type |-> "none", call |-> 0, kind |-> "-"]

CanCall == rpc = "call" /\ Len(outcomes) < MaxCalls

\* `return fun()`: fun returns a value.
FunReturns ==
    /\ CanCall
    /\ outcomes' = Append(outcomes, "ok")
    /\ rresult' = Returned(Len(outcomes) + 1)
    /\ rpc' = "returned"
    /\ UNCHANGED <<retriable_exceptions, max_retries, retry, sleeps, log>>
    /\ UNCHANGED othersRetry

\* fun raises an exception the except clause does not catch.
FunRaisesUncaught ==
    \E c \in RaisedByFun :
        /\ CanCall
        /\ ~ExceptMatches(c, retriable_exceptions)
        /\ outcomes' = Append(outcomes, c)
        /\ rresult' = Raised(Len(outcomes) + 1, c)
        /\ rpc' = "raised"
        /\ UNCHANGED <<retriable_exceptions, max_retries, retry, sleeps, log>>
        /\ UNCHANGED othersRetry

\* fun raises an instance of a subclass of a listed class: `raise exc`.
FunRaisesOtherType ==
    \E c \in RaisedByFun :
        /\ CanCall
        /\ ExceptMatches(c, retriable_exceptions)
        /\ ~TypeInRetriable(c, retriable_exceptions)
        /\ retry' = retry + 1
        /\ outcomes' = Append(outcomes, c)
        /\ rresult' = Raised(Len(outcomes) + 1, c)
        /\ rpc' = "raised"
        /\ UNCHANGED <<retriable_exceptions, max_retries, sleeps, log>>
        /\ UNCHANGED othersRetry

\* fun raises a listed class and the retry limit is reached.
FunRaisesLimit ==
    \E c \in RaisedByFun :
        /\ CanCall
        /\ ExceptMatches(c, retriable_exceptions)
        /\ TypeInRetriable(c, retriable_exceptions)
        /\ RetryLimitReached(retry + 1, max_retries)
        /\ retry' = retry + 1
        /\ outcomes' = Append(outcomes, c)
        /\ log' = DebugLimit(log)
        /\ rresult' = Raised(Len(outcomes) + 1, c)
        /\ rpc' = "raised"
        /\ UNCHANGED <<retriable_exceptions, max_retries, sleeps>>
        /\ UNCHANGED othersRetry

\* fun raises a listed class: log, sleep and go round the loop.
FunRaisesRetry ==
    \E c \in RaisedByFun :
        /\ CanCall
        /\ ExceptMatches(c, retriable_exceptions)
        /\ TypeInRetriable(c, retriable_exceptions)
        /\ ~RetryLimitReached(retry + 1, max_retries)
        /\ retry' = retry + 1
        /\ outcomes' = Append(outcomes, c)
        /\ \E seconds \in WaitSeconds(retry + 1) :
              /\ log' = DebugRetry(log, retry + 1, max_retries, c, seconds)
              /\ sleeps' = Append(sleeps, seconds)
        /\ UNCHANGED <<retriable_exceptions, max_retries, rpc, rresult>>
        /\ UNCHANGED othersRetry

RetryNext ==
    \/ FunReturns
    \/ FunRaisesUncaught
    \/ FunRaisesOtherType
    \/ FunRaisesLimit
    \/ FunRaisesRetry

-----------------------------------------------------------------------------
(* extract_vid_from_cli                                                    *)

MaxTokens == 3      \* the input string is joined from at most MaxTokens tokens

\* The default value of the parameter `delimiters`.
DefaultDelimiters == <<",", ", ">>

CliTokens == {"abc", "def", "ghi"}

ExtraDelims == {<<>>, <<";">>}

RECURSIVE JoinTokens(_, _)
\* tokens[1] \o seps[1] \o tokens[2] \o ... : the string a user types.
JoinTokens(tokens, seps) ==
    IF Len(tokens) = 1 THEN tokens[1]
    ELSE tokens[1] \o seps[1] \o JoinTokens(Tail(tokens), Tail(seps))

\* The strings handed to extract_vid_from_cli, with the tokens they hold.
CliInputs ==
    UNION {{[tokens |-> t, vid |-> JoinTokens(t, sp)] :
               t \in [1..n -> CliTokens],
               sp \in [1..(n - 1) -> {",", ", ", ";"}]} : n \in 1..MaxTokens}

\* s has the literal lit at position i.
LiteralAt(s, i, lit) ==
    /\ i + Len(lit) - 1 <= Len(s)
    /\ SubSeq(s, i, i + Len(lit) - 1) = lit

RECURSIVE AlternationMatch(_, _, _)
\* The regular expression '|'.join(alts) at position i of s: the length of the
\* first alternative, in the order written, that matches there; 0 when none does.
AlternationMatch(s, i, alts) ==
    IF alts = <<>> THEN 0
    ELSE IF LiteralAt(s, i, Head(alts)) THEN Len(Head(alts))
    ELSE AlternationMatch(s, i, Tail(alts))

RECURSIVE ReSplitFrom(_, _, _, _, _)
\* re.split scanning s from position i; the piece being collected began at start.
ReSplitFrom(s, alts, i, start, acc) ==
    IF i > Len(s) THEN Append(acc, SubSeq(s, start, Len(s)))
    ELSE LET m == AlternationMatch(s, i, alts)
         IN  IF m > 0
             THEN ReSplitFrom(s, alts, i + m, i + m,
                              Append(acc, SubSeq(s, start, i - 1)))
             ELSE ReSplitFrom(s, alts, i + 1, start, acc)

\* re.split('|'.join(alts), s) for alternatives without metacharacters.
ReSplit(alts, s) == ReSplitFrom(s, alts, 1, 1, <<>>)

CliStart ==
    /\ \E in \in CliInputs : cli_tokens = in.tokens /\ cli_vid = in.vid
    /\ extra_delim \in ExtraDelims
    /\ ids = <<>>
    /\ cpc = "start"

extract_vid_from_cli ==
    /\ cpc = "start"
    /\ ids' = ReSplit(DefaultDelimiters \o extra_delim, cli_vid)
    /\ cpc' = "done"
    /\ UNCHANGED <<cli_tokens, cli_vid, extra_delim>>
    /\ UNCHANGED othersCli

CliNext ==
    \/ extract_vid_from_cli

-----------------------------------------------------------------------------
(* check_valid_id                                                          *)

MaxIdLen == 12      \* candidate ids have at most MaxIdLen characters

IdLength == 11

ascii_lowercase ==
    {"a", "b", "c", "d", "e", "f", "g", "h", "i", "j", "k", "l", "m",
     "n", "o", "p", "q", "r", "s", "t", "u", "v", "w", "x", "y", "z"}

ascii_uppercase ==
    {"A", "B", "C", "D", "E", "F", "G", "H", "I", "J", "K", "L", "M",
     "N", "O", "P", "Q", "R", "S", "T", "U", "V", "W", "X", "Y", "Z"}

ascii_letters == ascii_lowercase \cup ascii_uppercase

digits == {"0", "1", "2", "3", "4", "5", "6", "7", "8", "9"}

\* set(al + dig + "".join(["-", "_"]))
vid_chars == ascii_letters \cup digits \cup {"-", "_"}

\* set(list(s)): the characters of s.
CharSet(s) == {SubSeq(s, i, i) : i \in 1..Len(s)}

check_valid_id_mutant(v) == Len(v) = IdLength /\ CharSet(v) \cap vid_chars # {}
check_valid_id(v) ==
    LET s == CharSet(v)
    IN  Len(v) = IdLength /\ (s \cap vid_chars) = s

RECURSIVE Repeat(_, _)
Repeat(c, n) == IF n <= 0 THEN "" ELSE c \o Repeat(c, n - 1)

\* Characters at the ends of the allowed ranges and just outside them.
SampleChars ==
    {"a", "z", "A", "Z", "0", "9", "-", "_",
     " ", ",", "=", "?", "&", "#", "/", ":", "@", "[", "^", "{"}

FillChars == {"a", "Z", "5", "_", "-", " "}

\* Strings of one repeated character, with at most one other character in them.
CandidateIds ==
    UNION {{Repeat(b, n) : b \in FillChars} \cup
           {Repeat(b, p - 1) \o c \o Repeat(b, n - p) :
                b \in FillChars, c \in SampleChars, p \in 1..n}
           : n \in 0..MaxIdLen}

ValidStart ==
    /\ vid \in CandidateIds
    /\ valid = FALSE
    /\ vpc = "start"

CheckValidId ==
    /\ vpc = "start"
    /\ valid' = check_valid_id(vid)
    /\ vpc' = "done"
    /\ UNCHANGED vid
    /\ UNCHANGED othersValid

ValidNext ==
    \/ CheckValidId

-----------------------------------------------------------------------------
(* extract_vid_from_file and filter_vid                                    *)

MaxLines == 2       \* a file has at most MaxLines lines

\* The position of the first character of s that is in cs, from position i
\* on; 0 when there is none.
RECURSIVE FindFrom(_, _, _)
FindFrom(s, cs, i) ==
    IF i > Len(s) THEN 0
    ELSE IF SubSeq(s, i, i) \in cs THEN i
    ELSE FindFrom(s, cs, i + 1)

Find(s, cs) == FindFrom(s, cs, 1)

\* The Python slice s[a-1:b], clipped to the string as Python clips it.
Slice(s, a, b) == SubSeq(s, a, IF b > Len(s) THEN Len(s) ELSE b)

Before(s, i) == SubSeq(s, 1, i - 1)

After(s, i) == SubSeq(s, i + 1, Len(s))

Whitespace == {" ", "\t", "\n", "\r"}

RECURSIVE rstrip(_)
\* str.rstrip(): s without its trailing whitespace.
rstrip(s) ==
    IF Len(s) > 0 /\ SubSeq(s, Len(s), Len(s)) \in Whitespace
    THEN rstrip(SubSeq(s, 1, Len(s) - 1))
    ELSE s

\* urllib.parse.scheme_chars
scheme_chars == ascii_letters \cup digits \cup {"+", "-", "."}

\* urlsplit: the scheme is what precedes the first ':' when it starts with a
\* letter and holds scheme characters only.
HasScheme(url) ==
    LET i == Find(url, {":"})
    IN  /\ i > 1
        /\ SubSeq(url, 1, 1) \in ascii_letters
        /\ CharSet(Before(url, i)) \subseteq scheme_chars

AfterScheme(url) ==
    IF HasScheme(url) THEN After(url, Find(url, {":"})) ELSE url

\* urlsplit: after "//" the network location runs to the next '/', '?' or '#'.
Netloc(rest) ==
    IF Slice(rest, 1, 2) = "//"
    THEN LET tail == SubSeq(rest, 3, Len(rest))
             e == Find(tail, {"/", "?", "#"})
         IN  IF e = 0 THEN tail ELSE Before(tail, e)
    ELSE ""

AfterNetloc(rest) ==
    IF Slice(rest, 1, 2) = "//"
    THEN SubSeq(rest, 3 + Len(Netloc(rest)), Len(rest))
    ELSE rest

\* urlsplit raises ValueError("Invalid IPv6 URL") on an unpaired bracket.
InvalidIPv6(netloc) ==
    \/ "[" \in CharSet(netloc) /\ "]" \notin CharSet(netloc)
    \/ "]" \in CharSet(netloc) /\ "[" \notin CharSet(netloc)

\* The fragment is cut at the first '#', then the query starts after the first '?'.
QueryOf(rest) ==
    LET h == Find(rest, {"#"})
        nofrag == IF h = 0 THEN rest ELSE Before(rest, h)
        q == Find(nofrag, {"?"})
    IN  IF q = 0 THEN "" ELSE After(nofrag, q)

\* urlparse(line): the fields filter_vid reads, or the error raised.
urlparse(line) ==
    LET rest == AfterScheme(line)
    IN  IF InvalidIPv6(Netloc(rest))
        THEN [raises |-> TRUE, scheme |-> FALSE, query |-> ""]
        ELSE [raises |-> FALSE, scheme |-> HasScheme(line),
              query |-> QueryOf(AfterNetloc(rest))]

RECURSIVE PlusToSpace(_)
\* unquote(s.replace('+', ' ')) for s without '%'.
PlusToSpace(s) ==
    IF s = "" THEN ""
    ELSE (IF SubSeq(s, 1, 1) = "+" THEN " " ELSE SubSeq(s, 1, 1))
             \o PlusToSpace(SubSeq(s, 2, Len(s)))

RECURSIVE QueryValues(_, _)
\* parse_qs(query)[name]: the non-blank values of the fields called name, in
\* order; fields are separated by '&' and split at their first '='.
QueryValues(query, name) ==
    LET a == Find(query, {"&"})
        field == IF a = 0 THEN query ELSE Before(query, a)
        more == IF a = 0 THEN <<>> ELSE QueryValues(After(query, a), name)
        e == Find(field, {"="})
    IN  IF /\ e > 0
           /\ Len(After(field, e)) > 0
           /\ PlusToSpace(Before(field, e)) = name
        THEN <<PlusToSpace(After(field, e))>> \o more
        ELSE more

\* What filter_vid evaluates to: a string, False, None, or a ValueError raised.
filter_vid(line) ==
    LET p == urlparse(line)
        v == QueryValues(p.query, "v")
    IN  IF p.raises THEN [tag |-> "ValueError", str |-> ""]
        ELSE IF p.scheme /\ v = <<>> THEN [tag |-> "False", str |-> ""]
        ELSE LET id == IF p.scheme THEN v[1] ELSE line
             IN  IF check_valid_id(id) THEN [tag |-> "str", str |-> id]
                 ELSE [tag |-> "None", str |-> ""]

RECURSIVE Collect(_, _)
\* The loop over `lines`: the collection built, and whether filter_vid raised.
Collect(lines, collection) ==
    IF lines = <<>> THEN [raises |-> FALSE, collection |-> collection]
    ELSE LET v == filter_vid(Head(lines))
         IN  IF v.tag = "ValueError"
             THEN [raises |-> TRUE, collection |-> collection]
             ELSE IF v.tag = "str"
             THEN Collect(Tail(lines), Append(collection, v.str))
             ELSE Collect(Tail(lines), collection)

\* The candidate ids written into the lines of a file.
LineIds == {"abcDEF12345", "dQw4w9W_XcQ", "a-cDEF1234", "abcDEF1234[", ""}

LineKinds == {"bare", "v", "v_then_more", "more_then_v", "v_fragment", "no_v",
              "bracket"}

\* The line of text of each kind, as readlines() returns it.
LineText(kind, id, trail) ==
    (CASE kind = "bare"        -> id
       [] kind = "v"           -> "https://example.com/watch?v=" \o id
       [] kind = "v_then_more" -> "https://example.com/watch?v=" \o id \o "&t=1"
       [] kind = "more_then_v" -> "https://example.com/watch?t=1&v=" \o id
       [] kind = "v_fragment"  -> "https://example.com/watch?v=" \o id \o "#v=x"
       [] kind = "no_v"        -> "https://example.com/watch?x=" \o id
       [] kind = "bracket"     -> "http://[::1/watch?v=" \o id)
    \o trail \o "\n"

LineSources == [kind : LineKinds, id : LineIds, trail : {"", " "}]

FileSources == UNION {[1..n -> LineSources] : n \in 0..MaxLines}

Unreadable == [readable |-> FALSE, lines |-> <<>>]

FileStart ==
    /\ \/ /\ f_src \in FileSources
          /\ f = [readable |-> TRUE,
                  lines |-> [i \in 1..Len(f_src) |->
                      LineText(f_src[i].kind, f_src[i].id, f_src[i].trail)]]
       \/ /\ f_src = <<>>
          /\ f = Unreadable
    /\ stderr = <<>>
    /\ fresult = [type |-> "none", items |-> <<>>]
    /\ fpc = "start"

StrippedLines == [i \in 1..Len(f.lines) |-> rstrip(f.lines[i])]

\* open(f) raises IOError: print the warning and `return`.
ExtractSkipsUnreadable ==
    /\ fpc = "start"
    /\ ~f.readable
    /\ stderr' = Append(stderr, "Could not open; skipping")
    /\ fresult' = [type |-> "None", items |-> <<>>]
    /\ fpc' = "returned"
    /\ UNCHANGED <<f_src, f>>
    /\ UNCHANGED othersFile

\* Every line is filtered: `return collection`.
ExtractReturnsCollection ==
    /\ fpc = "start"
    /\ f.readable
    /\ ~Collect(StrippedLines, <<>>).raises
    /\ fresult' = [type |-> "list",
                   items |-> Collect(StrippedLines, <<>>).collection]
    /\ fpc' = "returned"
    /\ UNCHANGED <<f_src, f, stderr>>
    /\ UNCHANGED othersFile

\* urlparse raises ValueError on a line: nothing catches it.
ExtractRaisesValueError ==
    /\ fpc = "start"
    /\ f.readable
    /\ Collect(StrippedLines, <<>>).raises
    /\ fresult' = [type |-> "ValueError", items |-> <<>>]
    /\ fpc' = "raised"
    /\ UNCHANGED <<f_src, f, stderr>>
    /\ UNCHANGED othersFile

FileNext ==
    \/ ExtractSkipsUnreadable
    \/ ExtractReturnsCollection
    \/ ExtractRaisesValueError

-----------------------------------------------------------------------------
(* catch_exceptions and EXIT_CODES                                         *)

EXIT_CODES ==
    [c \in {"OptionsError", "InvalidCategory", "RequestError",
            "AuthenticationError", "FlowExchangeError", "NotImplementedError"}
       |-> CASE c = "OptionsError"        -> 2
             [] c = "InvalidCategory"     -> 3
             [] c = "RequestError"        -> 3
             [] c = "AuthenticationError" -> 4
             [] c = "FlowExchangeError"   -> 4
             [] c = "NotImplementedError" -> 5]

\* The dictionaries handed to catch_exceptions: EXIT_CODES and its parts.
ExitCodeTables ==
    {[c \in keys |-> EXIT_CODES[c]] : keys \in SUBSET DOMAIN EXIT_CODES}

CatchStart ==
    /\ exit_codes \in ExitCodeTables
    /\ fun_raises \in {"nothing"} \cup Classes
    /\ kdebug = <<>>
    /\ kresult = [type |-> "none", code |-> 0, kind |-> "-"]
    /\ kpc = "start"

\* fun returns: `return 0`.
CatchReturnsZero ==
    /\ kpc = "start"
    /\ fun_raises = "nothing"
    /\ kresult' = [type |-> "return", code |-> 0, kind |-> "-"]
    /\ kpc' = "returned"
    /\ UNCHANGED <<exit_codes, fun_raises, kdebug>>
    /\ UNCHANGED othersCatch

\* fun raises an exception the except clause does not catch.
CatchPropagates ==
    /\ kpc = "start"
    /\ fun_raises # "nothing"
    /\ ~ExceptMatches(fun_raises, DOMAIN exit_codes)
    /\ kresult' = [type |-> "raise", code |-> 0, kind |-> fun_raises]
    /\ kpc' = "raised"
    /\ UNCHANGED <<exit_codes, fun_raises, kdebug>>
    /\ UNCHANGED othersCatch

\* The exception is caught and its class is a key: `return exit_codes[exc.__class__]`.
CatchReturnsCode ==
    /\ kpc = "start"
    /\ fun_raises # "nothing"
    /\ ExceptMatches(fun_raises, DOMAIN exit_codes)
    /\ fun_raises \in DOMAIN exit_codes
    /\ kdebug' = Append(kdebug, fun_raises)
    /\ kresult' = [type |-> "return", code |-> exit_codes[fun_raises], kind |-> "-"]
    /\ kpc' = "returned"
    /\ UNCHANGED <<exit_codes, fun_raises>>
    /\ UNCHANGED othersCatch

\* The exception is caught and its class is no key: the lookup raises KeyError.
CatchLookupFails ==
    /\ kpc = "start"
    /\ fun_raises # "nothing"
    /\ ExceptMatches(fun_raises, DOMAIN exit_codes)
    /\ fun_raises \notin DOMAIN exit_codes
    /\ kdebug' = Append(kdebug, fun_raises)
    /\ kresult' = [type |-> "raise", code |-> 0, kind |-> "KeyError"]
    /\ kpc' = "raised"
    /\ UNCHANGED <<exit_codes, fun_raises>>
    /\ UNCHANGED othersCatch

CatchNext ==
    \/ CatchReturnsZero
    \/ CatchPropagates
    \/ CatchReturnsCode
    \/ CatchLookupFails

-----------------------------------------------------------------------------
(* default_sigint                                                          *)

MaxScopes == 4      \* at most MaxScopes scopes are entered in a run

\* The values signal.getsignal(signal.SIGINT) returns in a Python program.
Handlers == {"default_int_handler", "SIG_IGN", "SIG_DFL", "custom_handler"}

\* signal.signal(signal.SIGINT, signal.SIG_DFL) at the entry of the scope.
HandlerInScope == "SIG_DFL"

\* The handler once the scope is left on `path`: the finally clause runs
\* signal.signal(signal.SIGINT, original) on the normal and the error path.
HandlerAfterScopeMutant(original, current, path) ==
    IF path = "error" THEN current ELSE original
HandlerAfterScope(original, current, path) == original

Last(seq) == seq[Len(seq)]

Front(seq) == SubSeq(seq, 1, Len(seq) - 1)

NoExit == [path |-> "none", entry |-> "SIG_DFL", after |-> "SIG_DFL"]

SigintStart ==
    /\ handler \in Handlers
    /\ first_handler = handler
    /\ original_sigint_handler = <<>>
    /\ entry_handler = <<>>
    /\ last_exit = NoExit
    /\ entered = 0
    /\ propagating = FALSE

\* `with default_sigint():` save the handler and install the default one.
EnterScope ==
    /\ ~propagating
    /\ entered < MaxScopes
    /\ original_sigint_handler' = Append(original_sigint_handler, handler)
    /\ entry_handler' = Append(entry_handler, handler)
    /\ handler' = HandlerInScope
    /\ entered' = entered + 1
    /\ UNCHANGED <<first_handler, last_exit, propagating>>
    /\ UNCHANGED othersSigint

LeaveScope(path) ==
    /\ original_sigint_handler # <<>>
    /\ handler' = HandlerAfterScope(Last(original_sigint_handler), handler, path)
    /\ original_sigint_handler' = Front(original_sigint_handler)
    /\ entry_handler' = Front(entry_handler)
    /\ last_exit' = [path |-> path, entry |-> Last(entry_handler),
                     after |-> handler']
    /\ UNCHANGED <<first_handler, entered>>

\* The body of the innermost scope completes.
BodyCompletes ==
    /\ ~propagating
    /\ LeaveScope("normal")
    /\ UNCHANGED propagating
    /\ UNCHANGED othersSigint

\* The body of the innermost scope raises, or lets an error through.
BodyRaises ==
    /\ LeaveScope("error")
    /\ propagating' = TRUE
    /\ UNCHANGED othersSigint

\* The code around the scope catches the error.
ErrorCaught ==
    /\ propagating
    /\ propagating' = FALSE
    /\ UNCHANGED <<handler, original_sigint_handler, first_handler,
                   entry_handler, last_exit, entered>>
    /\ UNCHANGED othersSigint

SigintNext ==
    \/ EnterScope
    \/ BodyCompletes
    \/ BodyRaises
    \/ ErrorCaught

-----------------------------------------------------------------------------
(* Specifications: each runs one function and leaves the others idle.      *)

RetryIdle ==
    /\ retriable_exceptions = {}
    /\ max_retries = None
    /\ retry = 0
    /\ outcomes = <<>>
    /\ sleeps = <<>>
    /\ log = <<>>
    /\ rpc = "idle"
    /\ rresult = [type |-> "none", call |-> 0, kind |-> "-"]

CliIdle ==
    /\ cli_tokens = <<>>
    /\ cli_vid = ""
    /\ extra_delim = <<>>
    /\ ids = <<>>
    /\ cpc = "idle"

ValidIdle ==
    /\ vid = ""
    /\ valid = FALSE
    /\ vpc = "idle"

FileIdle ==
    /\ f_src = <<>>
    /\ f = Unreadable
    /\ stderr = <<>>
    /\ fresult = [type |-> "none", items |-> <<>>]
    /\ fpc = "idle"

CatchIdle ==
    /\ exit_codes = EXIT_CODES
    /\ fun_raises = "nothing"
    /\ kdebug = <<>>
    /\ kresult = [type |-> "none", code |-> 0, kind |-> "-"]
    /\ kpc = "idle"

SigintIdle ==
    /\ handler = "default_int_handler"
    /\ first_handler = handler
    /\ original_sigint_handler = <<>>
    /\ entry_handler = <<>>
    /\ last_exit = NoExit
    /\ entered = 0
    /\ propagating = FALSE

RetryInit ==
    RetryStart /\ CliIdle /\ ValidIdle /\ FileIdle /\ CatchIdle /\ SigintIdle

SpecRetry == RetryInit /\ [][RetryNext]_vars

CliInit ==
    RetryIdle /\ CliStart /\ ValidIdle /\ FileIdle /\ CatchIdle /\ SigintIdle

SpecCli == CliInit /\ [][CliNext]_vars

ValidInit ==
    RetryIdle /\ CliIdle /\ ValidStart /\ FileIdle /\ CatchIdle /\ SigintIdle

SpecValid == ValidInit /\ [][ValidNext]_vars

FileInit ==
    RetryIdle /\ CliIdle /\ ValidIdle /\ FileStart /\ CatchIdle /\ SigintIdle

SpecFile == FileInit /\ [][FileNext]_vars

CatchInit ==
    RetryIdle /\ CliIdle /\ ValidIdle /\ FileIdle /\ CatchStart /\ SigintIdle

SpecCatch == CatchInit /\ [][CatchNext]_vars

SigintInit ==
    RetryIdle /\ CliIdle /\ ValidIdle /\ FileIdle /\ CatchIdle /\ SigintStart

SpecSigint == SigintInit /\ [][SigintNext]_vars

-----------------------------------------------------------------------------
(* Properties of retriable_exceptions                                      *)

\* Every call of fun so far raised a class listed in retriable_exceptions.
AllCallsRetriable ==
    \A i \in 1..Len(outcomes) : outcomes[i] \in retriable_exceptions

\* The run ended because the retry limit was reached.
EndedByExhaustion ==
    /\ rpc = "raised"
    /\ outcomes[Len(outcomes)] \in retriable_exceptions

\* C1: with max_retries = n and a fun that raises a retriable class on every
\* call, the error propagates after exactly n + 1 calls and n sleeps, and it is
\* the error of the last call.
C1_RetryBudget ==
    \A n \in 0..MaxRetries :
        (max_retries = {n} /\ AllCallsRetriable /\ rpc = "raised") =>
            /\ Len(outcomes) = n + 1
            /\ Len(sleeps) = n
            /\ rresult = Raised(n + 1, outcomes[n + 1])

C1_Witness ==
    /\ max_retries = {2}
    /\ AllCallsRetriable
    /\ rpc = "raised"
    /\ Len(outcomes) = 3

\* C2: an exception whose exact class is not in the retriable set propagates
\* at once: it is the last call, no sleep follows it, and it is what is raised.
C2_ExactKindMatching ==
    \A i \in 1..Len(outcomes) :
        (outcomes[i] # "ok" /\ outcomes[i] \notin retriable_exceptions) =>
            /\ i = Len(outcomes)
            /\ rpc = "raised"
            /\ rresult = Raised(i, outcomes[i])
            /\ Len(sleeps) = i - 1

C2_Witness ==
    /\ rpc = "raised"
    /\ Len(outcomes) = 3
    /\ retriable_exceptions = {"IOError", "HttpError"}
    /\ outcomes[3] = "FileNotFoundError"
    /\ max_retries = None

\* C3: after k retriable failures, with max_retries None or >= k, the loop
\* calls fun again; when that call succeeds its result is returned, and the k
\* sleeps made lie in [0, 2^i] for the i-th.
C3_SuccessAfterTransient ==
    /\ (/\ AllCallsRetriable
        /\ (max_retries = None \/ \E n \in max_retries : n >= Len(outcomes)))
          => (rpc = "call" /\ Len(sleeps) = Len(outcomes))
    /\ rpc = "returned" =>
          /\ outcomes[Len(outcomes)] = "ok"
          /\ rresult = Returned(Len(outcomes))
          /\ Len(sleeps) = Len(outcomes) - 1
          /\ \A i \in 1..Len(sleeps) : sleeps[i] >= 0 /\ sleeps[i] <= Pow2(i)

C3_Witness ==
    /\ rpc = "returned"
    /\ max_retries = {3}
    /\ Len(outcomes) = 3
    /\ sleeps = <<2, 4>>

\* C9: the log holds one line per sleep, in order, plus one final line when
\* the run ended by exhausting max_retries, and nothing else.
C9_RetryDiagnostics ==
    /\ Len(log) = Len(sleeps) + (IF EndedByExhaustion THEN 1 ELSE 0)
    /\ \A i \in 1..Len(sleeps) :
          /\ log[i].line = "Retryable error"
          /\ log[i].current_retry = i
          /\ log[i].wait_time = sleeps[i]
    /\ EndedByExhaustion => log[Len(log)].line = "Retry limit reached"

C9_Witness ==
    /\ EndedByExhaustion
    /\ Len(sleeps) = 2
    /\ Len(log) = 3

-----------------------------------------------------------------------------
(* Properties of extract_vid_from_cli                                      *)

\* The input is joined with the default separators "," and ", " only.
JoinedByDefaults ==
    \A i \in 1..Len(cli_vid) : SubSeq(cli_vid, i, i) # ";"

\* C4: tokens joined by any mix of "," and ", " come back as exactly those
\* tokens, in order, with no separator character left in any of them.
C4_CliTokenSplit ==
    (cpc = "done" /\ JoinedByDefaults) => ids = cli_tokens

-----------------------------------------------------------------------------
(* Properties of check_valid_id                                            *)

\* The alphabet {A-Z, a-z, 0-9, '-', '_'} of the specification.
IdAlphabet ==
    {"A", "B", "C", "D", "E", "F", "G", "H", "I", "J", "K", "L", "M", "N",
     "O", "P", "Q", "R", "S", "T", "U", "V", "W", "X", "Y", "Z",
     "a", "b", "c", "d", "e", "f", "g", "h", "i", "j", "k", "l", "m", "n",
     "o", "p", "q", "r", "s", "t", "u", "v", "w", "x", "y", "z",
     "0", "1", "2", "3", "4", "5", "6", "7", "8", "9", "-", "_"}

\* C5: check_valid_id(s) is true exactly when s has 11 characters and each
\* of them is in the alphabet.
C5_CheckValidId ==
    vpc = "done" =>
        (valid <=> (/\ Len(vid) = 11
                    /\ \A i \in 1..Len(vid) : SubSeq(vid, i, i) \in IdAlphabet))

C5_Witness ==
    /\ vpc = "done"
    /\ ~valid
    /\ Len(vid) = 11
    /\ \E i \in 1..Len(vid) : SubSeq(vid, i, i) = "["

-----------------------------------------------------------------------------
(* Properties of extract_vid_from_file                                     *)

\* A valid id in the words of the specification.
IsVideoId(s) ==
    Len(s) = 11 /\ \A i \in 1..Len(s) : SubSeq(s, i, i) \in IdAlphabet

\* The candidate of a line, from the way the line was written: the whole
\* line when it has no scheme, the first value of `v` when it has one.
CandidateOf(src) ==
    IF src.kind # "no_v" /\ IsVideoId(src.id) THEN <<src.id>> ELSE <<>>

RECURSIVE ExpectedIds(_)
ExpectedIds(srcs) ==
    IF srcs = <<>> THEN <<>>
    ELSE CandidateOf(Head(srcs)) \o ExpectedIds(Tail(srcs))

\* C6: for every readable sequence of lines the function returns, in input
\* order, exactly the candidates that are valid ids.
C6_FileLineExtraction ==
    (fpc # "start" /\ fpc # "idle" /\ f.readable) =>
        /\ fpc = "returned"
        /\ fresult = [type |-> "list", items |-> ExpectedIds(f_src)]

\* The same statement for the files on which no line makes urlparse raise.
FileLineExtractionWhenParsed ==
    (fpc = "returned" /\ f.readable) =>
        fresult = [type |-> "list", items |-> ExpectedIds(f_src)]

\* C7: for a file that cannot be opened the function prints one warning,
\* raises nothing and returns an empty sequence of ids.
C7_UnreadableSource ==
    (fpc # "start" /\ fpc # "idle" /\ ~f.readable) =>
        /\ fpc = "returned"
        /\ Len(stderr) = 1
        /\ fresult = [type |-> "list", items |-> <<>>]

-----------------------------------------------------------------------------
(* Properties of catch_exceptions                                          *)

\* The exit code the table gives for the kind of error an instance of c is.
CodeOfKind(c, codes) == codes[CHOOSE d \in DOMAIN codes : IsSubclass(c, d)]

\* C8: 0 is returned exactly when fun raises nothing, and an exception that
\* the except clause catches (instances of subclasses of the keys included)
\* is turned into the exit code of its error kind and never escapes.
C8_ExitCodeMapping ==
    /\ kpc = "returned" => (kresult.code = 0 <=> fun_raises = "nothing")
    /\ (/\ kpc \in {"returned", "raised"}
        /\ fun_raises # "nothing"
        /\ ExceptMatches(fun_raises, DOMAIN exit_codes))
          => /\ kpc = "returned"
             /\ kresult.code = CodeOfKind(fun_raises, exit_codes)

\* The same statement for exceptions whose exact class is a key.
ExitCodeOfExactClass ==
    /\ kpc = "returned" => (kresult.code = 0 <=> fun_raises = "nothing")
    /\ (kpc \in {"returned", "raised"} /\ fun_raises \in DOMAIN exit_codes)
          => /\ kpc = "returned"
             /\ kresult.code = EXIT_CODES[fun_raises]
             /\ kresult.code \in 2..5

-----------------------------------------------------------------------------
(* Properties of default_sigint                                            *)

\* C10: inside a scope the default handler is installed; a scope left on
\* either path leaves the handler that was installed when it was entered;
\* and once every scope is left the handler is the one before the first.
C10_ScopedInterruptHandling ==
    /\ original_sigint_handler # <<>> => handler = "SIG_DFL"
    /\ last_exit.path # "none" => last_exit.after = last_exit.entry
    /\ original_sigint_handler = <<>> => handler = first_handler

C10_Witness ==
    /\ original_sigint_handler = <<>>
    /\ last_exit.path = "error"
    /\ entered = 3
    /\ handler = "custom_handler"

====
